---- MODULE Spec2Model ----
(***************************************************************************)
(* WelcomeBot (src/welcomebot.py): polls a hashtag timeline, reblogs the   *)
(* public original toots, and keeps a since_id cursor across poll cycles.  *)
(*                                                                         *)
(* Toot ids are the positions 1..Len(timeline): ids are assigned in        *)
(* increasing order by the server.  Python's None is modelled as 0, which  *)
(* is below every id.                                                      *)
(***************************************************************************)
EXTENDS Integers, Sequences, FiniteSets, TLC

VARIABLES
    timeline,     \* the server's local hashtag timeline, oldest first; timeline[k].id = k
    window,       \* how the server reads max_id: "before" (id < max_id) or "upto" (id <= max_id)
    batch_size,   \* WelcomeBot.batch_size
    dry_run,      \* WelcomeBot.dry_run
    args_since,   \* args.since_id (None when not given)
    pc,           \* position of the process: main, scan, toot, loop, fetch, sleep, crashed
    since_id,     \* __main__'s since_id
    max_id,       \* retoot_intros' max_id
    latest_id,    \* retoot_intros' latest_id
    batch_len,    \* retoot_intros' batch_len
    toots,        \* retoot_batch's toots (the page being processed)
    idx,          \* position of retoot_batch's for loop in toots
    error,        \* which call raised: none, boot, fetch, action
    calls,        \* history: timeline_hashtag calls of the current scan
    reblogs,      \* history: ids passed to status_reblog, in call order
    scan_mark,    \* history: Len(reblogs) when the current scan started
    batch_mark,   \* history: Len(reblogs) when the current batch started
    scan_since,   \* history: the since_id retoot_intros is (being) called with
    scan_len,     \* history: Len(timeline) at the current scan's first fetch
    fetch_len,    \* history: Len(timeline) at the current scan's latest fetch
    prev,         \* history: scan_since, scan_len and fetch_len of the previous completed scan
    boot,         \* history: result of get_most_recent_id and the timeline length it saw
    ret,          \* history: the tuple the latest retoot_batch call returned
    probe,        \* the toot is_tootable is called with
    verdict,      \* what is_tootable returned for probe: none (not called yet), yes, no
    client,       \* the global _client: None or a handle
    client_log,   \* history: Mastodon objects made, log_in calls, handles logged in and returned
    lambda_run    \* aws_lambda_handler: its event's since_id, its result, and history

vars == <<timeline, window, batch_size, dry_run, args_since, pc, since_id, max_id,
          latest_id, batch_len, toots, idx, error, calls, reblogs, scan_mark,
          batch_mark, scan_since, scan_len, fetch_len, prev, boot, ret,
          probe, verdict, client, client_log, lambda_run>>

config == <<window, batch_size, dry_run, args_since>>
history == <<calls, reblogs, scan_mark, batch_mark, scan_since, scan_len, fetch_len, prev,
             boot, ret>>

\* what the polling loop of __main__ and its scans leave alone
aside == <<probe, verdict, client, client_log, lambda_run>>

None == 0

\* ---- bounds ----
MaxPosts == 3
MaxBatch == 2
MaxCalls == MaxPosts + 1
MaxReblogs == 2 * MaxPosts + 2

\* ---- the logs of calls made ----
\* a log of calls with one more entry; a full log keeps its length and its
\* last entry is the latest call
Logged(log, entry, max) ==
    IF Len(log) < max THEN Append(log, entry) ELSE [log EXCEPT ![max] = entry]

\* ---- toots ----
Original(id) ==
    [id |-> id, visibility |-> "public", reblog |-> None,
     in_reply_to_id |-> None, in_reply_to_account_id |-> None]

\* the toots that can arrive with the given id: a public original toot, a
\* private one, and a reply (to a toot of an account)
Arrivals(id) ==
    { Original(id),
      [Original(id) EXCEPT !.visibility = "private"],
      [Original(id) EXCEPT !.in_reply_to_id = 1, !.in_reply_to_account_id = 1] }

\* the visibilities a toot can have
Visibilities == {"public", "unlisted", "private", "direct"}

\* every toot record, as far as is_tootable reads it
Toots ==
    [id : 1..MaxPosts, visibility : Visibilities, reblog : {None, 1},
     in_reply_to_id : {None, 1}, in_reply_to_account_id : {None, 1}]

is_tootable_ignores_account(toot) ==
    /\ toot.visibility = "public"
    /\ toot.reblog = None
    /\ toot.in_reply_to_id = None

is_tootable(toot) ==
    /\ toot.visibility = "public"
    /\ toot.reblog = None
    /\ toot.in_reply_to_id = None
    /\ toot.in_reply_to_account_id = None

\* ---- the server's timeline_hashtag ----
Min(a, b) == IF a < b THEN a ELSE b

MaxOf(S) == CHOOSE x \in S : \A y \in S : y <= x

RECURSIVE NewestFirst(_)
NewestFirst(S) ==
    IF S = {} THEN <<>> ELSE <<MaxOf(S)>> \o NewestFirst(S \ {MaxOf(S)})

\* the window retoot_batch asks for: after since_id but before max_id
window_before_includes_max(id, since, max) ==
    /\ since = None \/ id > since
    /\ max = None \/ id <= max

window_before(id, since, max) ==
    /\ since = None \/ id > since
    /\ max = None \/ id < max

\* the window as section 4.2 words it: since_id < id <= max_id
window_upto(id, since, max) ==
    /\ since = None \/ id > since
    /\ max = None \/ id <= max

InWindow(id, since, max, w) ==
    IF w = "before" THEN window_before(id, since, max) ELSE window_upto(id, since, max)

timeline_hashtag_ignores_since(tl, since, max, limit, w) ==
    LET all == NewestFirst({id \in 1..Len(tl) : InWindow(id, None, max, w)})
    IN  [k \in 1..Min(limit, Len(all)) |-> tl[all[k]]]

\* the page the server answers with: the newest `limit` toots of the window,
\* newest first (no toot for a limit of 0)
timeline_hashtag(tl, since, max, limit, w) ==
    LET all == NewestFirst({id \in 1..Len(tl) : InWindow(id, since, max, w)})
    IN  [k \in 1..Min(limit, Len(all)) |-> tl[all[k]]]

\* ---- retoot_batch ----
batch_result_empty_none(page, since) ==
    IF Len(page) = 0
    THEN [oldest |-> None, latest |-> None, len |-> 0]
    ELSE [oldest |-> page[Len(page)].id, latest |-> page[1].id, len |-> Len(page)]

\* the tuple retoot_batch returns for a page
batch_result(page, since) ==
    IF Len(page) = 0
    THEN [oldest |-> since, latest |-> since, len |-> 0]
    ELSE [oldest |-> page[Len(page)].id, latest |-> page[1].id, len |-> Len(page)]

should_reblog_in_dry_run(toot, dry) ==
    is_tootable(toot)

\* whether the for loop calls status_reblog for a toot
should_reblog(toot, dry) ==
    is_tootable(toot) /\ ~dry

\* ---- retoot_intros ----
scan_done_after_first_page(len, size) ==
    TRUE

scan_done_on_empty(len, size) ==
    len = 0

\* the loop's exit test
scan_done(len, size) ==
    len < size

continuation_latest_overwrites(latest, r) ==
    r.latest

\* latest_id after a continuation batch: the batch's own latest is discarded
continuation_latest(latest, r) ==
    latest

continuation_since_none(since) ==
    None

\* the since_id a continuation batch is called with
continuation_since(since) ==
    since

\* ---- get_most_recent_id, get_with_default ----
most_recent_id_none(page) ==
    None

most_recent_id(page) ==
    IF Len(page) = 0 THEN None ELSE page[1].id

get_with_default(given, default) ==
    IF given # None THEN given ELSE default

\* ---- state ----
\* no scan has been made: nothing fetched, nothing reblogged
IdleInit ==
    /\ since_id = None
    /\ max_id = None
    /\ latest_id = None
    /\ batch_len = 0
    /\ toots = <<>>
    /\ idx = 0
    /\ error = "none"
    /\ calls = <<>>
    /\ reblogs = <<>>
    /\ scan_mark = 0
    /\ batch_mark = 0
    /\ scan_since = None
    /\ scan_len = 0
    /\ fetch_len = 0
    /\ prev = [since |-> -1, len |-> -1, end |-> -1]
    /\ boot = [id |-> -1, len |-> -1]
    /\ ret = [oldest |-> None, latest |-> None, len |-> 0]

\* __main__ at line 220
ProcessInit ==
    /\ pc = "main"
    /\ IdleInit

\* the same, with no toot on the server yet
ScanInit ==
    /\ timeline = <<>>
    /\ ProcessInit

\* the arguments --batch-size, --dry-run and --since-id
ConfigInit ==
    /\ batch_size \in 0..MaxBatch
    /\ dry_run \in BOOLEAN
    /\ args_since \in 0..MaxPosts

\* one setting of the arguments, where they play no part
ConfigDefault ==
    /\ window = "before"
    /\ batch_size = MaxBatch
    /\ dry_run = FALSE
    /\ args_since = None

\* is_tootable is not being called from outside a scan
FilterInit ==
    /\ probe = Original(1)
    /\ verdict = "none"

\* get_or_create_client has returned a logged-in client (line 217)
ClientInit ==
    /\ client = 1
    /\ client_log = [made |-> 1, logins |-> 1, ok |-> {1}, returned |-> <<1>>,
                     args |-> <<1>>]

\* aws_lambda_handler is not in use
LambdaInit ==
    lambda_run = [event |-> None, result |-> "none", first |-> -1]

\* __main__ after lines 201-218: the arguments are parsed, get_or_create_client
\* has returned a logged-in client, the WelcomeBot is constructed
InitConfig ==
    /\ ScanInit
    /\ ConfigInit
    /\ FilterInit
    /\ ClientInit
    /\ LambdaInit

Init ==
    /\ InitConfig
    /\ window = "before"

InitSec42 ==
    /\ InitConfig
    /\ window \in {"before", "upto"}

\* a new toot is posted with the hashtag
Arrive ==
    /\ Len(timeline) < MaxPosts
    /\ \E toot \in Arrivals(Len(timeline) + 1) :
          timeline' = Append(timeline, toot)
    /\ UNCHANGED <<config, aside, pc, since_id, max_id, latest_id, batch_len, toots, idx,
                   error, history>>

\* __main__ with --since-id given
MainGiven ==
    /\ pc = "main"
    /\ args_since # None
    /\ since_id' = get_with_default(args_since, None)
    /\ scan_since' = since_id'
    /\ pc' = "scan"
    /\ UNCHANGED <<timeline, config, aside, max_id, latest_id, batch_len, toots, idx, error,
                   calls, reblogs, scan_mark, batch_mark, scan_len, fetch_len, prev, boot, ret>>

\* __main__ without --since-id: get_most_recent_id
MainBootstrap ==
    /\ pc = "main"
    /\ args_since = None
    /\ LET page == timeline_hashtag(timeline, None, None, 1, window)
       IN  /\ since_id' = get_with_default(args_since, most_recent_id(page))
           /\ boot' = [id |-> most_recent_id(page), len |-> Len(timeline)]
    /\ scan_since' = since_id'
    /\ pc' = "scan"
    /\ UNCHANGED <<timeline, config, aside, max_id, latest_id, batch_len, toots, idx, error,
                   calls, reblogs, scan_mark, batch_mark, scan_len, fetch_len, prev, ret>>

\* get_most_recent_id's timeline_hashtag raises
MainBootstrapFails ==
    /\ pc = "main"
    /\ args_since = None
    /\ pc' = "crashed"
    /\ error' = "boot"
    /\ UNCHANGED <<timeline, config, aside, since_id, max_id, latest_id, batch_len, toots, idx,
                   history>>

\* retoot_intros receives the tuple of a retoot_batch call: the first call sets
\* latest_id, a continuation call does not
BatchReturns(page, since, first) ==
    LET r == batch_result(page, since)
    IN  /\ max_id' = r.oldest
        /\ latest_id' = IF first THEN r.latest ELSE continuation_latest(latest_id, r)
        /\ batch_len' = r.len
        /\ ret' = r
        /\ pc' = "loop"

\* retoot_batch up to its for loop, for the page the server answered with
Fetched(page, since, max, log) ==
    /\ toots' = page
    /\ calls' = Logged(log, [since |-> since, max |-> max,
                             ids |-> [k \in 1..Len(page) |-> page[k].id]], MaxCalls)
    /\ batch_mark' = Len(reblogs)
    /\ fetch_len' = Len(timeline)
    /\ IF Len(page) = 0
       THEN /\ idx' = 0
            /\ BatchReturns(page, since, log = <<>>)
       ELSE /\ idx' = 1
            /\ pc' = "toot"
            /\ UNCHANGED <<max_id, latest_id, batch_len, ret>>

\* retoot_intros is called: its first retoot_batch fetches with max_id = None
FetchFirst ==
    /\ pc = "scan"
    /\ scan_len' = Len(timeline)
    /\ scan_mark' = Len(reblogs)
    /\ Fetched(timeline_hashtag(timeline, since_id, None, batch_size, window),
               since_id, None, <<>>)
    /\ UNCHANGED <<timeline, config, aside, since_id, error, reblogs, scan_since, prev, boot>>

\* the loop's retoot_batch fetches with max_id = the previous batch's oldest id
FetchNext ==
    /\ pc = "fetch"
    /\ Fetched(timeline_hashtag(timeline, continuation_since(since_id), max_id,
                                batch_size, window),
               continuation_since(since_id), max_id, calls)
    /\ UNCHANGED <<timeline, config, aside, since_id, error, reblogs, scan_mark, scan_since,
                   scan_len, prev, boot>>

FetchFails_keeps_partial_cursor ==
    /\ pc \in {"scan", "fetch"}
    /\ pc' = "crashed"
    /\ error' = "fetch"
    /\ since_id' = IF pc = "fetch" THEN latest_id ELSE since_id
    /\ UNCHANGED <<timeline, config, aside, max_id, latest_id, batch_len, toots, idx, history>>

\* retoot_batch's timeline_hashtag raises: nothing catches it, the process ends
FetchFails ==
    /\ pc \in {"scan", "fetch"}
    /\ pc' = "crashed"
    /\ error' = "fetch"
    /\ UNCHANGED <<timeline, config, aside, since_id, max_id, latest_id, batch_len, toots, idx,
                   history>>

\* one iteration of retoot_batch's for loop; after the last one the batch returns
Toot_dry_run_returns_empty ==
    /\ pc = "toot"
    /\ reblogs' = IF should_reblog(toots[idx], dry_run)
                  THEN Logged(reblogs, toots[idx].id, MaxReblogs)
                  ELSE reblogs
    /\ IF idx < Len(toots)
       THEN /\ idx' = idx + 1
            /\ UNCHANGED <<pc, max_id, latest_id, batch_len, ret>>
       ELSE /\ idx' = idx
            /\ BatchReturns(IF dry_run THEN <<>> ELSE toots, calls[Len(calls)].since,
                            Len(calls) = 1)
    /\ UNCHANGED <<timeline, config, aside, since_id, toots, error, calls, scan_mark, batch_mark,
                   scan_since, scan_len, fetch_len, prev, boot>>

Toot ==
    /\ pc = "toot"
    /\ reblogs' = IF should_reblog(toots[idx], dry_run)
                  THEN Logged(reblogs, toots[idx].id, MaxReblogs)
                  ELSE reblogs
    /\ IF idx < Len(toots)
       THEN /\ idx' = idx + 1
            /\ UNCHANGED <<pc, max_id, latest_id, batch_len, ret>>
       ELSE /\ idx' = idx
            /\ BatchReturns(toots, calls[Len(calls)].since, Len(calls) = 1)
    /\ UNCHANGED <<timeline, config, aside, since_id, toots, error, calls, scan_mark, batch_mark,
                   scan_since, scan_len, fetch_len, prev, boot>>

TootFails_skips_toot ==
    /\ pc = "toot"
    /\ should_reblog(toots[idx], dry_run)
    /\ idx < Len(toots)
    /\ reblogs' = Logged(reblogs, toots[idx].id, MaxReblogs)
    /\ idx' = idx + 1
    /\ error' = "action"
    /\ UNCHANGED <<timeline, config, aside, pc, since_id, max_id, latest_id, batch_len, toots,
                   calls, scan_mark, batch_mark, scan_since, scan_len, fetch_len, prev, boot, ret>>

\* status_reblog raises: nothing catches it, the process ends
TootFails ==
    /\ pc = "toot"
    /\ should_reblog(toots[idx], dry_run)
    /\ reblogs' = Logged(reblogs, toots[idx].id, MaxReblogs)
    /\ pc' = "crashed"
    /\ error' = "action"
    /\ UNCHANGED <<timeline, config, aside, since_id, max_id, latest_id, batch_len, toots, idx,
                   calls, scan_mark, batch_mark, scan_since, scan_len, fetch_len, prev, boot, ret>>

\* retoot_intros' loop: a short batch ends the scan, and __main__ stores the
\* returned latest_id as its since_id
LoopReturn ==
    /\ pc = "loop"
    /\ scan_done(batch_len, batch_size)
    /\ since_id' = latest_id
    /\ pc' = "sleep"
    /\ UNCHANGED <<timeline, config, aside, max_id, latest_id, batch_len, toots, idx, error,
                   history>>

\* retoot_intros' loop: a full batch is followed by another retoot_batch
LoopContinue ==
    /\ pc = "loop"
    /\ ~scan_done(batch_len, batch_size)
    /\ pc' = "fetch"
    /\ UNCHANGED <<timeline, config, aside, since_id, max_id, latest_id, batch_len, toots, idx,
                   error, history>>

\* __main__ sleeps poll_interval seconds, then scans again
Sleep ==
    /\ pc = "sleep"
    /\ pc' = "scan"
    /\ prev' = [since |-> scan_since, len |-> scan_len, end |-> fetch_len]
    /\ scan_since' = since_id
    /\ UNCHANGED <<timeline, config, aside, since_id, max_id, latest_id, batch_len, toots, idx,
                   error, calls, reblogs, scan_mark, batch_mark, scan_len, fetch_len, boot, ret>>

Next ==
    \/ Arrive
    \/ MainGiven
    \/ MainBootstrap
    \/ MainBootstrapFails
    \/ FetchFirst
    \/ FetchNext
    \/ FetchFails
    \/ Toot
    \/ TootFails
    \/ LoopReturn
    \/ LoopContinue
    \/ Sleep

Spec == Init /\ [][Next]_vars

SpecSec42 == InitSec42 /\ [][Next]_vars

\* the steps of the process in which no call raises: the process is sequential,
\* every call returns and every sleep ends, so it keeps taking them
Run ==
    \/ MainGiven
    \/ MainBootstrap
    \/ FetchFirst
    \/ FetchNext
    \/ Toot
    \/ LoopReturn
    \/ LoopContinue
    \/ Sleep

\* the polling loop as C2 configures it
InitLive ==
    /\ Init
    /\ ~dry_run
    /\ batch_size >= 1

LiveSpec == InitLive /\ [][Next]_vars /\ WF_vars(Run)

\* ---- the first scan of a process, on a timeline that does not change ----
\* the timelines the server can hold when the process starts
Timelines ==
    UNION {{tl \in [1..n -> UNION {Arrivals(k) : k \in 1..n}] :
               \A k \in 1..n : tl[k] \in Arrivals(k)} : n \in 0..MaxPosts}

\* __main__ starts with batch_size >= 1 against a server that holds toots
\* already, for either wording of the window
InitScan42 ==
    /\ timeline \in Timelines
    /\ ProcessInit
    /\ ConfigInit
    /\ batch_size >= 1
    /\ window \in {"before", "upto"}
    /\ FilterInit
    /\ ClientInit
    /\ LambdaInit

\* __main__ up to the return of its first retoot_intros call
NextScan ==
    \/ MainGiven
    \/ MainBootstrap
    \/ MainBootstrapFails
    \/ FetchFirst
    \/ FetchNext
    \/ FetchFails
    \/ Toot
    \/ TootFails
    \/ LoopReturn
    \/ LoopContinue

\* its steps in which no call raises
RunScan ==
    \/ MainGiven
    \/ MainBootstrap
    \/ FetchFirst
    \/ FetchNext
    \/ Toot
    \/ LoopReturn
    \/ LoopContinue

LiveScan42 == InitScan42 /\ [][NextScan]_vars /\ WF_vars(RunScan)

\* ---- is_tootable called on its own ----
InitFilter ==
    /\ ScanInit
    /\ ConfigDefault
    /\ probe \in Toots
    /\ verdict = "none"
    /\ ClientInit
    /\ LambdaInit

\* is_tootable(probe) is called and returns
IsTootable ==
    /\ verdict = "none"
    /\ verdict' = IF is_tootable(probe) THEN "yes" ELSE "no"
    /\ UNCHANGED <<timeline, config, pc, since_id, max_id, latest_id, batch_len, toots, idx,
                   error, history, probe, client, client_log, lambda_run>>

NextFilter ==
    IsTootable

SpecFilter == InitFilter /\ [][NextFilter]_vars

\* ---- get_or_create_client, called any number of times in one process ----
MaxClientCalls == 3

\* the argument tuples (api_base_url, username, password, client_id, client_secret)
ClientArgs == 1..3

\* line 136, `if _client is None`
client_is_unset_always(c) == TRUE

client_is_unset(c) == c = None

\* a fresh process: the module has just set _client = None (line 129)
InitClient ==
    /\ ScanInit
    /\ ConfigDefault
    /\ FilterInit
    /\ LambdaInit
    /\ client = None
    /\ client_log = [made |-> 0, logins |-> 0, ok |-> {}, returned |-> <<>>, args |-> <<>>]

ClientUnchanged ==
    UNCHANGED <<timeline, config, pc, since_id, max_id, latest_id, batch_len, toots, idx,
                error, history, probe, verdict, lambda_run>>

\* _client is set: lines 137-148 are skipped and line 149 returns it
ClientCached(a) ==
    /\ Len(client_log.args) < MaxClientCalls
    /\ ~client_is_unset(client)
    /\ client_log' = [client_log EXCEPT !.returned = Append(@, client),
                                        !.args = Append(@, a)]
    /\ UNCHANGED client
    /\ ClientUnchanged

\* lines 139-149 run through: constructed, stored, logged in, returned
ClientCreated(a) ==
    /\ Len(client_log.args) < MaxClientCalls
    /\ client_is_unset(client)
    /\ client' = client_log.made + 1
    /\ client_log' = [client_log EXCEPT !.made = @ + 1,
                                        !.logins = @ + 1,
                                        !.ok = @ \cup {client_log.made + 1},
                                        !.returned = Append(@, client_log.made + 1),
                                        !.args = Append(@, a)]
    /\ ClientUnchanged

\* Mastodon(...) raises at line 139: nothing is assigned, the call raises
ClientConstructorFails(a) ==
    /\ Len(client_log.args) < MaxClientCalls
    /\ client_is_unset(client)
    /\ client_log' = [client_log EXCEPT !.args = Append(@, a)]
    /\ UNCHANGED client
    /\ ClientUnchanged

\* line 139 has assigned _client, then log_in raises at line 146: the call raises
ClientLoginFails(a) ==
    /\ Len(client_log.args) < MaxClientCalls
    /\ client_is_unset(client)
    /\ client' = client_log.made + 1
    /\ client_log' = [client_log EXCEPT !.made = @ + 1,
                                        !.logins = @ + 1,
                                        !.args = Append(@, a)]
    /\ ClientUnchanged

NextClient ==
    \E a \in ClientArgs :
        \/ ClientCached(a)
        \/ ClientCreated(a)
        \/ ClientConstructorFails(a)
        \/ ClientLoginFails(a)

SpecClient == InitClient /\ [][NextClient]_vars

\* ---- aws_lambda_handler, invoked again and again by a step function ----
\* the module is loaded in the Lambda runtime, nothing has been invoked; the
\* first event carries a since_id or none
InitLambda ==
    /\ timeline = <<>>
    /\ pc = "lambda"
    /\ IdleInit
    /\ ConfigDefault
    /\ FilterInit
    /\ client = None
    /\ client_log = [made |-> 0, logins |-> 0, ok |-> {}, returned |-> <<>>, args |-> <<>>]
    /\ lambda_run \in [event : 0..MaxPosts, result : {"none"}, first : {-1}]

\* the step function invokes the handler: with the since_id of the previous
\* output, which after an invocation that raised is the event it had
LambdaInvoke ==
    /\ pc = "lambda"
    /\ lambda_run.result # "running"
    /\ lambda_run' = [lambda_run EXCEPT !.result = "running"]
    /\ UNCHANGED <<timeline, config, pc, since_id, max_id, latest_id, batch_len, toots, idx,
                   error, history, probe, verdict, client, client_log>>

\* aws_lambda_handler: line 179 calls collect_env_vars(logger), which takes no
\* parameter, so the call raises TypeError and the handler ends there
LambdaRaises ==
    /\ pc = "lambda"
    /\ lambda_run.result = "running"
    /\ lambda_run' = [lambda_run EXCEPT !.result = "error",
                                        !.first = IF @ = -1 THEN Len(timeline) ELSE @]
    /\ UNCHANGED <<timeline, config, pc, since_id, max_id, latest_id, batch_len, toots, idx,
                   error, history, probe, verdict, client, client_log>>

NextLambda ==
    \/ Arrive
    \/ LambdaInvoke
    \/ LambdaRaises

\* the step function keeps invoking and every invocation ends
LiveLambda == InitLambda /\ [][NextLambda]_vars /\ WF_vars(LambdaInvoke \/ LambdaRaises)

\* ---- what the statements below speak about ----

\* section 4.1's eligibility, as the specification words it
Eligible(toot) ==
    /\ toot.visibility = "public"
    /\ toot.reblog = None
    /\ toot.in_reply_to_id = None
    /\ toot.in_reply_to_account_id = None

Ids(page) == [k \in 1..Len(page) |-> page[k].id]

Last(seq) == seq[Len(seq)]

\* the status_reblog calls of the current scan, and of the current batch
ScanReblogs == SubSeq(reblogs, scan_mark + 1, Len(reblogs))

BatchReblogs == SubSeq(reblogs, batch_mark + 1, Len(reblogs))

Count(id) == Cardinality({k \in DOMAIN reblogs : reblogs[k] = id})

Reblogged(id) == \E k \in DOMAIN reblogs : reblogs[k] = id

\* ---- C1 ----

\* C1 as stated: with dry_run false, batch_size >= 1 and the server answering
\* with the window since_id < id <= max_id, status_reblog has been called at most
\* once per toot id when a scan of the polling loop has completed
C1_AtMostOnce_UpTo ==
    (~dry_run /\ batch_size >= 1 /\ window = "upto" /\ pc = "sleep")
        => \A id \in 1..Len(timeline) : Count(id) <= 1

\* C1, amended: with dry_run false, batch_size >= 1 and the server answering
\* with the window since_id < id < max_id, status_reblog is called at most once
\* per toot id over all the scans of the polling loop
C1_AtMostOnce_Before ==
    (~dry_run /\ batch_size >= 1 /\ window = "before")
        => \A id \in 1..Len(timeline) : Count(id) <= 1

\* a second scan, with a continuation page, has reblogged after an earlier scan did
C1_Witness ==
    /\ window = "before"
    /\ ~dry_run
    /\ pc = "sleep"
    /\ prev.since # -1
    /\ scan_mark >= 1
    /\ Len(calls) >= 2
    /\ Len(ScanReblogs) >= 2

\* ---- C2 ----

\* the cursor the polling loop started from: --since-id, or the bootstrap's result
InitialCursor == IF args_since # None THEN args_since ELSE boot.id

\* an eligible toot above the initial cursor is in the timeline of the running loop
C2_Pending(id) ==
    /\ ~dry_run
    /\ batch_size >= 1
    /\ pc # "main"
    /\ error # "boot"
    /\ id <= Len(timeline)
    /\ Eligible(timeline[id])
    /\ id > InitialCursor

\* C2: in the polling loop with dry_run false and batch_size >= 1, every eligible
\* toot above the initial cursor, whenever it arrives, is eventually passed to
\* status_reblog, unless a call raises.  A toot that is pending stays pending and
\* one that was reblogged stays so, hence "pending leads to reblogged" is
\* "always eventually: not pending, or reblogged"
C2_EveryTootReblogged ==
    /\ [][\A id \in 1..MaxPosts :
            /\ C2_Pending(id) => C2_Pending(id)'
            /\ Reblogged(id) => Reblogged(id)']_vars
    /\ \A id \in 1..MaxPosts :
          []<>(~C2_Pending(id) \/ Reblogged(id) \/ error # "none")

\* a toot that arrived between the first and the last fetch of the scan before
\* this one, while it was paging backwards, has been reblogged by this scan
C2_Witness ==
    /\ pc = "sleep"
    /\ prev.since # -1
    /\ \E k \in DOMAIN ScanReblogs :
          /\ ScanReblogs[k] > prev.len
          /\ ScanReblogs[k] <= prev.end
          /\ C2_Pending(ScanReblogs[k])

\* ---- C3 ----

\* every continuation page holds only ids strictly below the previous page's oldest id
PagesStrictlyOlder ==
    \A k \in 2..Len(calls) :
        \A j \in DOMAIN calls[k].ids :
            calls[k - 1].ids # <<>> /\ calls[k].ids[j] < Last(calls[k - 1].ids)

C3_Case ==
    /\ pc = "sleep"
    /\ ~dry_run
    /\ batch_size >= 1
    /\ Len(calls[1].ids) = batch_size
    /\ PagesStrictlyOlder

\* C3: a completed scan whose first page is full and whose continuation pages are
\* strictly older than the page before them called timeline_hashtag with its own
\* since_id every time, with max_id = None first and then the previous page's
\* oldest id, and called status_reblog exactly once for each eligible toot above
\* since_id of the timeline the first fetch saw, in strictly descending id order
C3_PagingOrder ==
    C3_Case =>
        /\ \A k \in DOMAIN calls : calls[k].since = scan_since
        /\ calls[1].max = None
        /\ \A k \in 2..Len(calls) : calls[k].max = Last(calls[k - 1].ids)
        /\ ScanReblogs =
             NewestFirst({id \in 1..calls[1].ids[1] :
                            /\ scan_since = None \/ id > scan_since
                            /\ Eligible(timeline[id])})

\* a scan from a real since_id with a full first page, a non-empty continuation
\* page and an ineligible toot among the reblogged ones
C3_Witness ==
    /\ C3_Case
    /\ scan_since # None
    /\ Len(calls) >= 2
    /\ calls[2].ids # <<>>
    /\ Len(ScanReblogs) >= 1
    /\ \E id \in 1..Len(timeline) : id > scan_since /\ ~Eligible(timeline[id])

\* ---- C4 ----

\* what the first retoot_batch of the current scan returned as latest
FirstLatest ==
    IF calls[1].ids = <<>> THEN scan_since ELSE calls[1].ids[1]

\* C4: once the first batch of a scan has returned, latest_id is the newest id of
\* the first page (since_id for an empty one) through every continuation page,
\* and it is the cursor the scan returns
C4_CursorFromFirstPage ==
    /\ (Len(calls) >= 2 \/ (Len(calls) = 1 /\ pc \in {"loop", "fetch", "sleep"}))
          => latest_id = FirstLatest
    /\ pc = "sleep" => since_id = FirstLatest

\* a scan returned after a non-empty first page and an empty last continuation page
C4_Witness ==
    /\ pc = "sleep"
    /\ Len(calls) >= 2
    /\ calls[1].ids # <<>>
    /\ Last(calls).ids = <<>>
    /\ since_id = calls[1].ids[1]

\* ---- C5 ----

\* the timeline holds no toot above the since_id of the current scan
NothingNewer ==
    \A id \in 1..Len(timeline) : scan_since # None /\ id <= scan_since

\* C5 as stated: a scan during which no toot arrived returns the since_id it was
\* called with, whatever the timeline and the since_id, and when the scan before
\* it was called with the same since_id and no toot arrived since, it calls
\* status_reblog zero times
C5_Idempotent_AnyCursor ==
    (pc = "sleep" /\ Len(timeline) = scan_len)
        => /\ since_id = scan_since
           /\ (prev.since = scan_since /\ prev.len = Len(timeline))
                 => ScanReblogs = <<>>

\* C5, amended: when the timeline holds no toot above X, a scan called with
\* since_id = X returns X and calls status_reblog zero times, the first time and
\* the second time
C5_Idempotent_UpToDate ==
    (pc = "sleep" /\ NothingNewer)
        => /\ since_id = scan_since
           /\ ScanReblogs = <<>>

\* two scans in a row were called with the same since_id on a non-empty timeline
C5_Witness ==
    /\ pc = "sleep"
    /\ NothingNewer
    /\ Len(timeline) >= 1
    /\ prev.since = scan_since
    /\ prev.len = Len(timeline)

\* ---- C6 ----

\* C6: when a retoot_batch call has returned, its status_reblog calls are the
\* eligible toots of its page, once each in page order, when dry_run is false,
\* and none when dry_run is true; the length it returns is the page length
C6_BatchReblogs ==
    pc \in {"loop", "fetch", "sleep"} =>
        /\ BatchReblogs = IF dry_run THEN <<>> ELSE Ids(SelectSeq(toots, Eligible))
        /\ batch_len = Len(toots)

\* a batch returned for a page with an eligible and an ineligible toot
C6_Witness ==
    /\ pc = "loop"
    /\ ~dry_run
    /\ Len(toots) >= 2
    /\ Len(BatchReblogs) >= 1
    /\ Len(BatchReblogs) < Len(toots)
    /\ batch_len = Len(toots)

\* ---- C7 ----

\* C7: when get_most_recent_id ran on a non-empty timeline, it returned the
\* newest id, and no status_reblog call of the polling loop is for an id
\* less than or equal to it
C7_BootstrapExcludesHistory ==
    (boot.id # -1 /\ boot.len >= 1)
        => /\ boot.id = boot.len
           /\ \A k \in DOMAIN reblogs : reblogs[k] > boot.id

\* after a bootstrap on a non-empty timeline, a later scan than the first reblogged
C7_Witness ==
    /\ boot.len >= 1
    /\ prev.since # -1
    /\ Len(ScanReblogs) >= 1
    /\ \E id \in 1..boot.len : Eligible(timeline[id])

\* ---- C8 ----

\* C8 as stated: with batch_size below 1 no scan is attempted: timeline_hashtag
\* is never called by retoot_batch and status_reblog is never called
C8_NoScanForBadBatchSize ==
    batch_size < 1 => (calls = <<>> /\ reblogs = <<>>)

\* ---- C9 ----

\* C9: when timeline_hashtag raises in retoot_batch, the process ends with
\* since_id as it was when the scan was called, and no fetch, no status_reblog
\* and no assignment of since_id follows
C9_FetchFailurePropagates ==
    /\ [](error = "fetch" => (pc = "crashed" /\ since_id = scan_since))
    /\ [][error = "fetch" => UNCHANGED <<pc, error, since_id, latest_id, calls, reblogs>>]_vars
    /\ [][(error = "none" /\ error' = "fetch") => UNCHANGED <<since_id, calls, reblogs>>]_vars

\* the fetch of a continuation page failed after the scan had reblogged and
\* had a latest_id above its since_id
C9_Witness ==
    /\ error = "fetch"
    /\ Len(calls) >= 1
    /\ Len(ScanReblogs) >= 1
    /\ latest_id # since_id

\* ---- C10 ----

\* C10: when status_reblog raises, the process ends at that toot: the failed
\* call is the last status_reblog call, it was made once in this batch, and no
\* fetch, no status_reblog and no assignment of since_id follows
C10_ActionFailurePropagates ==
    /\ [](error = "action" =>
            /\ pc = "crashed"
            /\ since_id = scan_since
            /\ BatchReblogs # <<>>
            /\ Last(BatchReblogs) = toots[idx].id
            /\ Cardinality({k \in DOMAIN BatchReblogs : BatchReblogs[k] = toots[idx].id}) = 1)
    /\ [][error = "action" => UNCHANGED <<pc, error, since_id, idx, calls, reblogs>>]_vars

\* status_reblog failed on a toot that has an eligible toot after it in its page
C10_Witness ==
    /\ error = "action"
    /\ idx < Len(toots)
    /\ Eligible(toots[idx + 1])

\* ---- C11 ----

\* C11: a completed scan whose first page was shorter than batch_size (empty
\* included) made exactly one timeline_hashtag call and returned that page's
\* newest id, or its since_id when the page was empty
C11_ShortFirstPage ==
    (pc = "sleep" /\ Len(calls[1].ids) < batch_size)
        => /\ Len(calls) = 1
           /\ since_id = IF calls[1].ids = <<>> THEN scan_since ELSE calls[1].ids[1]

\* a scan returned after a first page that was neither empty nor full
C11_Witness ==
    /\ pc = "sleep"
    /\ calls[1].ids # <<>>
    /\ Len(calls[1].ids) < batch_size
    /\ Len(calls) = 1
    /\ since_id = calls[1].ids[1]

\* ---- C12 ----

\* C12: when retoot_batch has returned for an empty page, whatever the since_id
\* (None included) and the max_id it was called with, the tuple it returned is
\* (since_id, since_id, 0) and it made no status_reblog call
C12_EmptyBatch ==
    (pc \in {"loop", "fetch", "sleep"} /\ toots = <<>>)
        => /\ ret = [oldest |-> Last(calls).since, latest |-> Last(calls).since, len |-> 0]
           /\ BatchReblogs = <<>>

\* retoot_batch returned for an empty page asked for with a since_id and a max_id
C12_Witness ==
    /\ pc = "loop"
    /\ toots = <<>>
    /\ Last(calls).since # None
    /\ Last(calls).max # None
    /\ ret.latest = Last(calls).since

\* ---- C13 ----

\* how many of section 4.1's four conditions a toot fails
FailedConditions(toot) ==
    Cardinality({c \in {"visibility", "reblog", "in_reply_to_id", "in_reply_to_account_id"} :
                    IF c = "visibility" THEN toot[c] # "public" ELSE toot[c] # None})

\* C13: for every toot record, is_tootable returns true if and only if the
\* visibility is public and reblog, in_reply_to_id and in_reply_to_account_id
\* are all None; one condition failing is enough for false
C13_Eligibility ==
    verdict # "none" =>
        /\ verdict = "yes" <=> Eligible(probe)
        /\ FailedConditions(probe) >= 1 => verdict = "no"

\* is_tootable returned false for a toot that fails only in_reply_to_account_id
C13_Witness ==
    /\ verdict = "no"
    /\ FailedConditions(probe) = 1
    /\ probe.in_reply_to_account_id # None

\* ---- C14 ----

\* C14: after any number of get_or_create_client calls in one process, with
\* any arguments, at most one client has been constructed, at most one log-in
\* has been made, and every call that returned has returned the same handle
C14_OneClient ==
    /\ client_log.made <= 1
    /\ client_log.logins <= 1
    /\ \A j, k \in DOMAIN client_log.returned :
           client_log.returned[j] = client_log.returned[k]

\* three calls with three different argument tuples have returned
C14_Witness ==
    /\ Len(client_log.returned) = 3
    /\ Cardinality({client_log.args[k] : k \in DOMAIN client_log.args}) = 3
    /\ client_log.made = 1
    /\ client_log.logins = 1

\* ---- C19 ----

\* C19: every handle that get_or_create_client has returned has completed a
\* successful log-in, also after an earlier call failed during log-in
C19_ReturnedLoggedIn ==
    \A k \in DOMAIN client_log.returned : client_log.returned[k] \in client_log.ok

\* ---- C17 ----

\* C17: with a fetcher that returns only ids above since_id, the cursor a scan
\* returns is at least the since_id the scan was given, and equal to it exactly
\* when the scan's first page was empty; an absent cursor stays absent over an
\* empty first page; from one step of the polling loop to the next since_id
\* never decreases
C17_CursorNeverBackwards ==
    /\ [](pc = "sleep" =>
            /\ since_id >= scan_since
            /\ since_id = scan_since <=> calls[1].ids = <<>>
            /\ (scan_since = None /\ calls[1].ids = <<>>) => since_id = None)
    /\ [][pc # "main" => since_id' >= since_id]_vars

\* the second scan of the loop paged more than once and moved the cursor up
\* again, after the first scan had moved it up from a given since_id
C17_Witness ==
    /\ pc = "sleep"
    /\ prev.since # -1
    /\ prev.since # None
    /\ Len(calls) >= 2
    /\ scan_since > prev.since
    /\ since_id > scan_since

\* ---- C18 ----

\* the retoot_batch calls retoot_intros makes on a timeline that does not
\* change, as [since, max, ids fetched], computed from the timeline, the cursor
\* and the batch size alone; `more` bounds the number of continuation calls
RECURSIVE ScanCalls(_, _, _, _, _, _)
ScanCalls(tl, since, max, size, w, more) ==
    LET page == timeline_hashtag(tl, since, max, size, w)
        r == batch_result(page, since)
        call == [since |-> since, max |-> max, ids |-> Ids(page)]
    IN  IF scan_done(r.len, size) \/ more = 0
        THEN <<call>>
        ELSE <<call>> \o ScanCalls(tl, continuation_since(since), r.oldest, size, w, more - 1)

\* the cursor retoot_intros returns on that timeline
ScanCursor(tl, since, size, w) ==
    batch_result(timeline_hashtag(tl, since, None, size, w), since).latest

\* no toot arrived between the first and the latest fetch of the current scan
SameTimeline == scan_len = fetch_len

\* C18: for the same timeline, since_id and batch_size, a scan issues the same
\* fetches (same since_id and max_id, hence the same pages), makes the same
\* number of retoot_batch calls and returns the same cursor whether dry_run is
\* true or false: all three are the values computed without reference to dry_run
C18_DryRunSameScan ==
    (pc \in {"toot", "loop", "fetch", "sleep"} /\ SameTimeline) =>
        LET expected == ScanCalls(SubSeq(timeline, 1, scan_len), scan_since, None,
                                  batch_size, window, MaxCalls - 1)
        IN  /\ calls = SubSeq(expected, 1, Len(calls))
            /\ pc = "sleep" =>
                  /\ calls = expected
                  /\ since_id = ScanCursor(SubSeq(timeline, 1, scan_len), scan_since,
                                           batch_size, window)

\* a dry-run scan over an unchanging timeline has paged at least twice over
\* pages holding an eligible toot, reblogged nothing and returned a new cursor
C18_Witness ==
    /\ pc = "sleep"
    /\ dry_run
    /\ SameTimeline
    /\ Len(calls) >= 2
    /\ \E k \in DOMAIN calls : \E j \in DOMAIN calls[k].ids :
           Eligible(timeline[calls[k].ids[j]])
    /\ ScanReblogs = <<>>
    /\ since_id > scan_since

\* ---- C15 ----

\* a scan is under way: retoot_intros has been called and has not returned
Scanning == pc \in {"scan", "toot", "loop", "fetch"}

\* C15 as stated: with batch_size >= 1, no call raising and the server
\* answering with the window since_id < id <= max_id, every scan terminates.
\* The loop scans again after every scan, so "every scan terminates" is
\* "always eventually no scan is under way"
C15_ScanTerminates_UpTo ==
    []<>(window # "upto" \/ ~Scanning \/ error # "none")

\* C15 for the window since_id < id < max_id: with batch_size >= 1 and no call
\* raising every scan terminates, and it returns after a page shorter than
\* batch_size
C15_ScanTerminates_Before ==
    /\ []<>(window # "before" \/ ~Scanning \/ error # "none")
    /\ [](window = "before" /\ pc = "sleep" => Len(toots) < batch_size)

\* a scan with batch_size 1 and the window before max_id has returned after
\* more than two pages, the last one shorter than batch_size
C15_Witness ==
    /\ window = "before"
    /\ pc = "sleep"
    /\ batch_size = 1
    /\ Len(calls) >= 3
    /\ Len(Last(calls).ids) < batch_size

\* ---- C16 ----

\* the toot arrived after the first invocation of the handler had ended
AfterFirstInvocation(id) ==
    /\ lambda_run.first # -1
    /\ id \in (lambda_run.first + 1)..Len(timeline)

\* C16: in a chain of invocations of the handler, each given the cursor the
\* previous one left, every eligible toot that arrives after the first
\* invocation has ended is eventually passed to status_reblog
C16_ChainReblogsLaterToots ==
    \A id \in 1..MaxPosts :
        []<>(~(AfterFirstInvocation(id) /\ Eligible(timeline[id])) \/ Reblogged(id))

====
